---- MODULE Spec2Model ----
(***************************************************************************)
(* DotBattle: the Simulation class (src/sim/simulation.ts) together with   *)
(* the parts of App.tsx / StatsPanel.tsx that drive it.                    *)
(*                                                                         *)
(* Numbers.  JavaScript numbers are modelled in fixed point: a real value  *)
(* v is the integer v * U (U = 100), divisions truncate toward zero.       *)
(* Positions, sizes and velocities of dots are held in these units         *)
(* ("centi"); timestamps are whole milliseconds; control values are held   *)
(* in the units of the settings sliders.                                   *)
(*                                                                         *)
(* Math.random.  Every handler invocation that draws random numbers takes  *)
(* one stream of draws from Streams; draw number i of the invocation is    *)
(* element (i mod length) of the stream, as a numerator over RandDen.      *)
(*                                                                         *)
(* Objects.  Dots are objects with identity: heap maps an object id to the *)
(* dot's fields, and dots, gridCells, menuDot and hoverDot hold ids.       *)
(***************************************************************************)
EXTENDS Integers, Sequences, FiniteSets, TLC

\* ---------------------------------------------------------------- bounds
MaxFrames == 3
MaxDots == 60
RandDen == 4

\* ------------------------------------------------------- program constants
U == 100
PadTop == 12
PadRight == 12
PadBottom == 20
PadLeft == 12
BatchSize == 50
ImpulseRadius == 150
ImpulseStrength == 240
ImpulseDuration == 500
MaxSpeed == 300
WallStrength == 40
BounceDamping == 60
MinWallRadius == 20
MinInfluence == 8
MinCell == 8
StatsInterval == 250
MaxDeltaMs == 32
StepMsC == 1667
FocusedFps == 60
BlurredFps == 40
NULL == 0
NaN == -1
Hole == -2
Undefined == -3

\* ------------------------------------------------------------ arithmetic
Abs(a) == IF a < 0 THEN -a ELSE a
Min(a, b) == IF a < b THEN a ELSE b
Max(a, b) == IF a > b THEN a ELSE b
\* division of reals, truncated toward zero
Div(a, b) == IF b = 0 THEN 0
             ELSE IF (a >= 0) = (b > 0) THEN Abs(a) \div Abs(b)
             ELSE -(Abs(a) \div Abs(b))
Mul(a, b) == Div(a * b, U)
Ceil(a, b) == IF a <= 0 THEN 0 ELSE ((a - 1) \div b) + 1

RECURSIVE SqrtSearch(_, _, _)
SqrtSearch(n, lo, hi) ==
    IF lo >= hi THEN lo
    ELSE LET mid == (lo + hi + 1) \div 2
         IN IF mid * mid <= n THEN SqrtSearch(n, mid, hi)
            ELSE SqrtSearch(n, lo, mid - 1)
\* Math.sqrt, floored
Sqrt(n) == IF n <= 0 THEN 0 ELSE SqrtSearch(n, 0, Min(n, 46340))
\* Math.hypot
Hypot(a, b) == Sqrt(a * a + b * b)

Cos8 == <<100, 71, 0, -71, -100, -71, 0, 71>>
Sin8 == <<0, 71, 100, 71, 0, -71, -100, -71>>

\* ---------------------------------------------------------- Math.random
LowStream == <<0, 0, 0, 0, 0, 0, 0>>
HighStream == <<3, 3, 3, 3, 3, 3, 3>>
NearStream == <<1, 1, 1, 0, 0, 2, 2>>
MixedStream == <<0, 3, 1, 2, 0, 3, 2>>
Streams == { LowStream, HighStream, NearStream, MixedStream }
\* draws that make init place dot k (of nine) on point k of a 3 x 3 lattice:
\* per dot the draws of faction, x, y, size, angle and speed
BlockStream ==
    <<0, 0, 0, 3, 0, 3>> \o <<0, 1, 0, 3, 1, 1>> \o <<2, 2, 0, 3, 2, 3>> \o
    <<2, 0, 1, 3, 3, 3>> \o <<0, 1, 1, 3, 0, 0>> \o <<2, 2, 1, 3, 1, 1>> \o
    <<0, 0, 2, 3, 2, 2>> \o <<2, 1, 2, 3, 3, 3>> \o <<0, 2, 2, 3, 0, 0>>
Draw(stream, i) == stream[(i % Len(stream)) + 1]
\* rand(min, max) of utils/math
Rand(lo, hi, r) == lo + Div((hi - lo) * r, RandDen)

\* ------------------------------------------------------------------ state
VARIABLES sim, env, app, out
vars == <<sim, env, app, out>>

\* SimControls values: count, sizes, battleRadius and mouseRange in px,
\* speed and magnetStrength as on the sliders, mouseAttraction in 1/U.
BaseControls == [count |-> 3, speed |-> 100, minSize |-> 2, maxSize |-> 4,
                 battleRadius |-> 5, magnetStrength |-> 80,
                 mouseAttraction |-> 0, mouseRange |-> 100, repelAll |-> FALSE]
\* nine dots, the largest battle radius of its slider, a speed of 300
GridControls == [BaseControls EXCEPT !.count = 9, !.battleRadius = 20,
                                     !.speed = 300]
ControlsSet == { BaseControls, GridControls,
                 [BaseControls EXCEPT !.battleRadius = 0, !.repelAll = TRUE,
                                      !.maxSize = 10, !.count = 2],
                 [BaseControls EXCEPT !.mouseAttraction = 100, !.speed = 300],
                 [BaseControls EXCEPT !.minSize = 4, !.maxSize = 10, !.count = 2] }
\* the size sliders set with the minimum above the maximum
InvertedControls == [BaseControls EXCEPT !.minSize = 6, !.maxSize = 4]

\* canvas.getBoundingClientRect(): <<width, height>> in px
Rects == { <<40, 40>>, <<26, 40>> }
\* a canvas of 4 x 5 cells of 20 px, and one that is not laid out
GridRect == <<80, 88>>
NoRect == <<0, 0>>
\* App palette lengths
PaletteLens == 0..3
\* values of the context-menu size slider, in px
MenuSizes == { 30 }
\* counts handed to removeFactionDots (Undefined: no count)
RemoveCounts == { Undefined, 0, 1, BatchSize }
\* performance.now() at construction, gaps between animation callbacks
InitClocks == { 1000 }
FrameGaps == { 8, 17, 260 }

NoMouse == [x |-> 0, y |-> 0, active |-> FALSE]
\* clickImpulse === null; a live impulse has decay > 0
NoImpulse == [live |-> FALSE, x |-> 0, y |-> 0, elapsed |-> 0, decay |-> 0]
\* the canvas before anything is drawn on it
Blank == [border |-> FALSE, ring |-> <<>>, dots |-> <<>>, hover |-> <<>>]
NoFrame == [ts |-> NULL, updated |-> FALSE, dt |-> 0, rendered |-> FALSE,
            emitted |-> FALSE]

InitSim(c) ==
    [controls |-> c, viewWidth |-> 0, viewHeight |-> 0, paused |-> FALSE,
     lastTime |-> 0, lastSimulationTime |-> 0, nextStatsUpdate |-> 0,
     lastFrameTime |-> 0, fps |-> 0, targetFps |-> FocusedFps,
     gridCells |-> <<>>, dots |-> <<>>, heap |-> <<>>, mouse |-> NoMouse,
     clickImpulse |-> NoImpulse, hoverDot |-> NULL, menuDot |-> NULL,
     needsRender |-> TRUE, rafId |-> NULL]

\* the state after new Simulation(canvas, controls, options) in App's mount
\* effect, before sim.start()
Init ==
    /\ \E c \in ControlsSet : sim = InitSim(c)
    /\ \E t \in InitClocks, r \in Rects \cup {GridRect, NoRect}, p \in PaletteLens \ {0} :
         env = [clock |-> t, hidden |-> FALSE, focused |-> TRUE, rect |-> r,
                pending |-> {}, nextHandle |-> 1, palette |-> p]
    /\ app = [statsFactions |-> <<>>, statsTotal |-> 0, statsFps |-> 0]
    /\ out = [canvas |-> Blank, frame |-> NoFrame, battles |-> <<>>,
              error |-> FALSE, emitTs |-> NULL]

World == [sim |-> sim, env |-> env, app |-> app, out |-> out]

\* ----------------------------------------------------------- object heap
Range(f) == { f[i] : i \in DOMAIN f }
\* concatenation of the sequences ss[lo..hi] (split in halves to keep the
\* evaluation shallow)
RECURSIVE FlattenRange(_, _, _)
FlattenRange(ss, lo, hi) ==
    IF lo > hi THEN <<>>
    ELSE IF lo = hi THEN ss[lo]
    ELSE LET mid == (lo + hi) \div 2
         IN FlattenRange(ss, lo, mid) \o FlattenRange(ss, mid + 1, hi)
Flatten(ss) == FlattenRange(ss, 1, Len(ss))
GridIds(s) == UNION { Range(s.gridCells[i]) : i \in DOMAIN s.gridCells }
\* ids reachable from the simulation, not counting the dot list
HeldIds(s) == (GridIds(s) \cup {s.menuDot, s.hoverDot}) \ {NULL}
LiveIds(s) == HeldIds(s) \cup Range(s.dots)
\* n ids not in used, smallest first, in increasing order
FreshIds(used, n, from) ==
    LET free == (from..(from + Cardinality(used) + n)) \ used
        rank == [x \in free |-> Cardinality({ y \in free : y < x })]
    IN [k \in 1..n |-> CHOOSE x \in free : rank[x] = k - 1]
\* garbage collection: objects no longer referenced disappear
Collect(s) ==
    LET live == LiveIds(s) \cap DOMAIN s.heap
    IN [s EXCEPT !.heap = [i \in live |-> s.heap[i]]]
DotAt(s, i) == s.heap[s.dots[i]]

Apply(w) ==
    /\ sim' = Collect(w.sim)
    /\ env' = w.env
    /\ app' = w.app
    /\ out' = w.out

\* ------------------------------------------------------- simple handlers
\* window.requestAnimationFrame(this.loop)
RequestFrame(w) ==
    [w EXCEPT !.sim.rafId = w.env.nextHandle,
              !.env.pending = w.env.pending \cup {w.env.nextHandle},
              !.env.nextHandle = w.env.nextHandle + 1]

\* stop that forgets the handle without cancelling the callback
DoStopNoCancel(w) == [w EXCEPT !.sim.rafId = NULL]

DoStop(w) ==
    [w EXCEPT !.env.pending = IF w.sim.rafId # NULL
                              THEN w.env.pending \ {w.sim.rafId}
                              ELSE w.env.pending,
              !.sim.rafId = NULL]

\* setControls that also drops the selection and the radial impulse
DoSetControlsReset(w, next) ==
    [w EXCEPT !.sim.controls = next, !.sim.menuDot = NULL,
              !.sim.clickImpulse = NoImpulse]

DoSetControls(w, next) == [w EXCEPT !.sim.controls = next]

DoSetPalette(w, n) ==
    IF n = 0
    THEN [w EXCEPT !.sim.dots = <<>>, !.sim.needsRender = TRUE]
    ELSE LET s == w.sim
             old == s.dots
             ids == FreshIds(LiveIds(s), Len(old), 1)
             copied == [i \in Range(ids) |->
                          LET k == CHOOSE k \in DOMAIN ids : ids[k] = i
                          IN [s.heap[old[k]] EXCEPT
                                !.faction = s.heap[old[k]].faction % n]]
             kept == [i \in (DOMAIN s.heap) \ Range(ids) |-> s.heap[i]]
             heap1 == [i \in DOMAIN kept \cup Range(ids) |->
                         IF i \in Range(ids) THEN copied[i] ELSE kept[i]]
             heap2 == IF s.menuDot # NULL
                      THEN [heap1 EXCEPT ![s.menuDot].faction =
                                            heap1[s.menuDot].faction % n]
                      ELSE heap1
         IN [w EXCEPT !.sim.dots = ids, !.sim.heap = heap2,
                      !.sim.needsRender = TRUE]

DoSetPaused(w, p) == [w EXCEPT !.sim.paused = p, !.sim.needsRender = TRUE]

Inside(d, x, y) ==
    (x - d.x) * (x - d.x) + (y - d.y) * (y - d.y) <= d.size * d.size
\* findDotAt: the last dot of the list that contains the point, or null
FindDotAt(s, x, y) ==
    LET hits == { i \in DOMAIN s.dots : Inside(DotAt(s, i), x, y) }
    IN IF hits = {} THEN NULL
       ELSE s.dots[CHOOSE i \in hits : \A j \in hits : j <= i]

DoSetMenuDotAt(w, x, y) ==
    LET found == FindDotAt(w.sim, x, y)
    IN [w EXCEPT !.sim.menuDot = found,
                 !.sim.needsRender = (found # NULL) \/ w.sim.needsRender]

DoClearMenuDot(w) == [w EXCEPT !.sim.menuDot = NULL, !.sim.needsRender = TRUE]

DoUpdateMenuDotSize(w, size) ==
    IF w.sim.menuDot = NULL THEN w
    ELSE [w EXCEPT !.sim.heap[w.sim.menuDot].size = size,
                   !.sim.needsRender = TRUE]

DoUpdateMenuDotFaction(w, faction) ==
    IF w.sim.menuDot = NULL THEN w
    ELSE [w EXCEPT !.sim.heap[w.sim.menuDot].faction = faction,
                   !.sim.needsRender = TRUE]

DoSetAllToFaction(w, faction) ==
    [w EXCEPT !.sim.heap = [i \in DOMAIN w.sim.heap |->
                              IF i \in Range(w.sim.dots)
                              THEN [w.sim.heap[i] EXCEPT !.faction = faction]
                              ELSE w.sim.heap[i]],
              !.sim.needsRender = TRUE]

\* spawnDot drawing the size from twice the range
SpawnDotOversize(faction, x, y, minSize, maxSize, stream, i) ==
    LET size == Rand(minSize * U, 2 * maxSize * U, Draw(stream, i))
        oct == ((8 * Draw(stream, i + 1)) \div RandDen) + 1
        speed == Rand(40, 100, Draw(stream, i + 2))
    IN [x |-> x, y |-> y, vx |-> Mul(Cos8[oct], speed),
        vy |-> Mul(Sin8[oct], speed), size |-> size, faction |-> faction]

\* spawnDot; draws i, i+1, i+2 of the stream give size, angle and speed
SpawnDot(faction, x, y, minSize, maxSize, stream, i) ==
    LET size == Rand(minSize * U, maxSize * U, Draw(stream, i))
        oct == ((8 * Draw(stream, i + 1)) \div RandDen) + 1
        speed == Rand(40, 100, Draw(stream, i + 2))
    IN [x |-> x, y |-> y, vx |-> Mul(Cos8[oct], speed),
        vy |-> Mul(Sin8[oct], speed), size |-> size, faction |-> faction]

MinX == PadLeft * U
MinY == PadTop * U
MaxX(s) == (s.viewWidth - PadRight) * U
MaxY(s) == (s.viewHeight - PadBottom) * U

\* this.dots.push(d) for each d of news, in order
PushDots(s, news) ==
    LET ids == FreshIds(LiveIds(s), Len(news), 1)
    IN [s EXCEPT !.dots = s.dots \o ids,
                 !.heap = [i \in DOMAIN s.heap \cup Range(ids) |->
                             IF i \in Range(ids)
                             THEN news[CHOOSE k \in DOMAIN ids : ids[k] = i]
                             ELSE s.heap[i]]]

\* addDotsForFaction whose loop stops one dot early
DoAddDotsForFactionShort(w, faction, stream) ==
    LET s == w.sim
        news == [k \in 1..(BatchSize - 1) |->
                   SpawnDot(faction,
                            Rand(MinX, MaxX(s), Draw(stream, 5 * (k - 1))),
                            Rand(MinY, MaxY(s), Draw(stream, 5 * (k - 1) + 1)),
                            s.controls.minSize, s.controls.maxSize,
                            stream, 5 * (k - 1) + 2)]
    IN [w EXCEPT !.sim = [PushDots(s, news) EXCEPT !.needsRender = TRUE]]

DoAddDotsForFaction(w, faction, stream) ==
    LET s == w.sim
        news == [k \in 1..BatchSize |->
                   SpawnDot(faction,
                            Rand(MinX, MaxX(s), Draw(stream, 5 * (k - 1))),
                            Rand(MinY, MaxY(s), Draw(stream, 5 * (k - 1) + 1)),
                            s.controls.minSize, s.controls.maxSize,
                            stream, 5 * (k - 1) + 2)]
    IN [w EXCEPT !.sim = [PushDots(s, news) EXCEPT !.needsRender = TRUE]]

DoHandleShiftClick(w, x, y) ==
    IF w.sim.paused THEN w
    ELSE [w EXCEPT !.sim.clickImpulse = [live |-> TRUE, x |-> x, y |-> y,
                                         elapsed |-> 0, decay |-> U],
                   !.sim.needsRender = TRUE]

DoHandleCanvasClick(w, x, y, shiftKey, stream) ==
    LET s == w.sim
        hit == FindDotAt(s, x, y)
    IN IF s.paused /\ shiftKey THEN w
       ELSE IF hit # NULL
       THEN LET dot == s.heap[hit]
                news == [k \in 1..BatchSize |->
                    LET offX == Mul(((Draw(stream, 5 * (k - 1)) * 2 * U)
                                       \div RandDen) - U, dot.size)
                        offY == Mul(((Draw(stream, 5 * (k - 1) + 1) * 2 * U)
                                       \div RandDen) - U, dot.size)
                    IN SpawnDot(dot.faction,
                                Max(MinX, Min(MaxX(s), dot.x + offX)),
                                Max(MinY, Min(MaxY(s), dot.y + offY)),
                                s.controls.minSize, s.controls.maxSize,
                                stream, 5 * (k - 1) + 2)]
            IN [w EXCEPT !.sim = [PushDots(s, news) EXCEPT !.needsRender = TRUE]]
       ELSE IF shiftKey /\ ~s.paused THEN DoHandleShiftClick(w, x, y)
       ELSE w

\* removeFactionDots: the walk from index i down to the head of the list
\* splices out every dot of the faction it meets; removed counts the splices
\* so far; the walk breaks when count is truthy and reached
RECURSIVE RemoveWalk(_, _, _, _, _, _)
RemoveWalk(heap, list, faction, count, i, removed) ==
    IF i < 1 THEN list
    ELSE IF heap[list[i]].faction # faction
    THEN RemoveWalk(heap, list, faction, count, i - 1, removed)
    ELSE LET spliced == SubSeq(list, 1, i - 1) \o SubSeq(list, i + 1, Len(list))
         IN IF count # Undefined /\ count # 0 /\ removed + 1 >= count
            THEN spliced
            ELSE RemoveWalk(heap, spliced, faction, count, i - 1, removed + 1)
RemoveFrom(heap, list, faction, count) ==
    RemoveWalk(heap, list, faction, count, Len(list), 0)

DoRemoveFactionDots(w, faction, count) ==
    [w EXCEPT !.sim.dots = RemoveFrom(w.sim.heap, w.sim.dots, faction, count),
              !.sim.needsRender = TRUE]

DoHandleMouseMove(w, x, y) ==
    LET w1 == [w EXCEPT !.sim.mouse = [x |-> x, y |-> y, active |-> TRUE]]
    IN IF w.sim.paused
       THEN [w1 EXCEPT !.sim.hoverDot = FindDotAt(w.sim, x, y),
                       !.sim.needsRender = TRUE]
       ELSE w1

DoHandleMouseLeave(w) ==
    LET w1 == [w EXCEPT !.sim.mouse.active = FALSE]
    IN IF w.sim.paused
       THEN [w1 EXCEPT !.sim.hoverDot = NULL, !.sim.needsRender = TRUE]
       ELSE w1

\* resizeCanvas; assigning canvas.width clears the canvas
DoResizeCanvas(w) ==
    [w EXCEPT !.sim.viewWidth = w.env.rect[1],
              !.sim.viewHeight = w.env.rect[2],
              !.sim.needsRender = TRUE,
              !.out.canvas = Blank]

\* init that appends the new population to the list it finds
DoInitAppend(w, stream) ==
    LET s == w.sim
        factions == w.env.palette
        c == s.controls
        news == [k \in 1..c.count |->
                   SpawnDot((factions * Draw(stream, 6 * (k - 1))) \div RandDen,
                            Rand(MinX, MaxX(s), Draw(stream, 6 * (k - 1) + 1)),
                            Rand(MinY, MaxY(s), Draw(stream, 6 * (k - 1) + 2)),
                            c.minSize, c.maxSize, stream, 6 * (k - 1) + 3)]
        ids == FreshIds(LiveIds(s), c.count, 1)
    IN IF factions = 0 THEN [w EXCEPT !.sim.dots = <<>>]
       ELSE [w EXCEPT !.sim.dots = s.dots \o ids,
                      !.sim.heap = [i \in DOMAIN s.heap \cup Range(ids) |->
                                      IF i \in Range(ids)
                                      THEN news[CHOOSE k \in DOMAIN ids : ids[k] = i]
                                      ELSE s.heap[i]]]

\* init; six draws per dot: faction, x, y, then spawnDot's three
DoInit(w, stream) ==
    LET s == w.sim
        factions == w.env.palette
        c == s.controls
        news == [k \in 1..c.count |->
                   SpawnDot((factions * Draw(stream, 6 * (k - 1))) \div RandDen,
                            Rand(MinX, MaxX(s), Draw(stream, 6 * (k - 1) + 1)),
                            Rand(MinY, MaxY(s), Draw(stream, 6 * (k - 1) + 2)),
                            c.minSize, c.maxSize, stream, 6 * (k - 1) + 3)]
        ids == FreshIds(LiveIds(s), c.count, 1)
    IN IF factions = 0 THEN [w EXCEPT !.sim.dots = <<>>]
       ELSE [w EXCEPT !.sim.dots = ids,
                      !.sim.heap = [i \in DOMAIN s.heap \cup Range(ids) |->
                                      IF i \in Range(ids)
                                      THEN news[CHOOSE k \in DOMAIN ids : ids[k] = i]
                                      ELSE s.heap[i]]]

\* ---------------------------------------------------------------- physics
InfluenceRadius(c) == Max(MinInfluence, c.maxSize * 5)
CellSize(c) == Max(MinCell, InfluenceRadius(c))
Cols(s) == Ceil(s.viewWidth, CellSize(s.controls))
Rows(s) == Ceil(s.viewHeight, CellSize(s.controls))
\* Math.min(cols - 1, Math.max(0, Math.floor(v / cellSize)))
CellCoord(v, n, cell) == Min(n - 1, Max(0, v \div (cell * U)))
\* cx + cy * cols, as an index into gridCells (which starts at 1 here)
CellIndex(s, d) ==
    CellCoord(d.x, Cols(s), CellSize(s.controls))
      + CellCoord(d.y, Rows(s), CellSize(s.controls)) * Cols(s) + 1

\* with no cells the first push of the rebuild is on gridCells[-1], which is
\* undefined: a TypeError
GridThrows(s) == Cols(s) * Rows(s) = 0 /\ s.dots # <<>>

\* the grid after the rebuild at the head of runMovement
RebuildGrid(s) ==
    [c \in 1..(Cols(s) * Rows(s)) |->
        SelectSeq(s.dots, LAMBDA i : CellIndex(s, s.heap[i]) = c)]

\* (the scan with its bounds test off by one: nx > cols, ny > rows)
NeighbourCellsWide(cx, cy, cols, rows) ==
    LET offs == <<<<-1, -1>>, <<0, -1>>, <<1, -1>>, <<-1, 0>>, <<0, 0>>,
                  <<1, 0>>, <<-1, 1>>, <<0, 1>>, <<1, 1>>>>
        ok(o) == /\ cx + o[1] >= 0 /\ cy + o[2] >= 0
                 /\ cx + o[1] <= cols /\ cy + o[2] < rows
        idx(o) == (cx + o[1]) + (cy + o[2]) * cols + 1
    IN [k \in 1..Len(SelectSeq(offs, ok)) |-> idx(SelectSeq(offs, ok)[k])]

\* indices of the cells scanned around cell (cx, cy): oy outer, ox inner
NeighbourCells(cx, cy, cols, rows) ==
    LET offs == <<<<-1, -1>>, <<0, -1>>, <<1, -1>>, <<-1, 0>>, <<0, 0>>,
                  <<1, 0>>, <<-1, 1>>, <<0, 1>>, <<1, 1>>>>
        ok(o) == /\ cx + o[1] >= 0 /\ cy + o[2] >= 0
                 /\ cx + o[1] < cols /\ cy + o[2] < rows
        idx(o) == (cx + o[1]) + (cy + o[2]) * cols + 1
    IN [k \in 1..Len(SelectSeq(offs, ok)) |-> idx(SelectSeq(offs, ok)[k])]

\* every dot stored in the 3x3 block around d's cell, d itself included
Candidates(s, grid, d) ==
    LET cx == CellCoord(d.x, Cols(s), CellSize(s.controls))
        cy == CellCoord(d.y, Rows(s), CellSize(s.controls))
        cells == NeighbourCells(cx, cy, Cols(s), Rows(s))
    IN Flatten([k \in DOMAIN cells |-> grid[cells[k]]])

\* (the sign without the test of repelAll)
ForceSignByFaction(repelAll, otherFaction, dotFaction) ==
    IF otherFaction = dotFaction THEN -1 ELSE 1
\* sign of the neighbour force
ForceSign(repelAll, otherFaction, dotFaction) ==
    IF repelAll THEN -1 ELSE IF otherFaction = dotFaction THEN -1 ELSE 1

\* influenceRadius * (0.6 + other.size / maxSize)
EffectiveRadius(c, other) ==
    Mul(InfluenceRadius(c) * U, 60 + Div(other.size, c.maxSize))

\* contribution of one neighbour to <<ax, ay>>
NeighbourForce(c, dot, other) ==
    LET dx == other.x - dot.x
        dy == other.y - dot.y
        distSq == dx * dx + dy * dy
        sizeFactor == Div(other.size, c.maxSize)
        effectiveRadius == EffectiveRadius(c, other)
        dist == Sqrt(distSq)
        falloff == U - Div(dist * U, effectiveRadius)
        force == Div(c.magnetStrength * falloff * (50 + Mul(sizeFactor, sizeFactor)),
                     100 * U)
        sign == ForceSign(c.repelAll, other.faction, dot.faction)
    IN IF distSq = 0 \/ distSq > effectiveRadius * effectiveRadius
       THEN <<0, 0>>
       ELSE <<Mul(Div(dx * U, dist), force) * sign,
              Mul(Div(dy * U, dist), force) * sign>>

\* if (other === dot) continue
Others(cands, id) == SelectSeq(cands, LAMBDA o : o # id)

\* <<ax, ay>> summed over the candidates lo..hi (split in halves to keep the
\* evaluation shallow)
RECURSIVE SumForces(_, _, _, _, _, _)
SumForces(c, heap, id, cands, lo, hi) ==
    IF lo > hi THEN <<0, 0>>
    ELSE IF lo = hi
    THEN NeighbourForce(c, heap[id], heap[cands[lo]])
    ELSE LET mid == (lo + hi) \div 2
             a == SumForces(c, heap, id, cands, lo, mid)
             b == SumForces(c, heap, id, cands, mid + 1, hi)
         IN <<a[1] + b[1], a[2] + b[2]>>

\* velocity after the speed clamp
ClampSpeed(v) ==
    LET speed == Hypot(v[1], v[2])
    IN IF speed > MaxSpeed
       THEN <<Div(v[1] * MaxSpeed, speed), Div(v[2] * MaxSpeed, speed)>>
       ELSE v

\* pointer force on a dot at <<x, y>>
MouseForce(s, x, y, dt) ==
    LET c == s.controls
        dx == s.mouse.x - x
        dy == s.mouse.y - y
        distSq == dx * dx + dy * dy
        range == c.mouseRange * U
        dist == Sqrt(distSq)
        falloff == U - Div(dist * U, range)
        force == Mul(c.mouseAttraction * 3, falloff)
    IN IF s.mouse.active /\ c.mouseAttraction # 0
          /\ distSq > 0 /\ distSq <= range * range
       THEN <<Mul(Mul(Div(dx * U, dist), force), dt),
              Mul(Mul(Div(dy * U, dist), force), dt)>>
       ELSE <<0, 0>>

\* radial impulse force on a dot at <<x, y>>
ImpulseForce(s, x, y, dt) ==
    LET imp == s.clickImpulse
        dx == x - imp.x
        dy == y - imp.y
        distSq == dx * dx + dy * dy
        dist == Sqrt(distSq)
        falloff == U - Div(dist * U, ImpulseRadius * U)
        force == Mul(Mul(ImpulseStrength, falloff), imp.decay)
    IN IF imp.live /\ distSq > 0
          /\ distSq <= (ImpulseRadius * U) * (ImpulseRadius * U)
       THEN <<Mul(Mul(Div(dx * U, dist), force), dt),
              Mul(Mul(Div(dy * U, dist), force), dt)>>
       ELSE <<0, 0>>

WallRadius(c) == Max(MinWallRadius * U, (InfluenceRadius(c) * U) \div 2)
\* soft wall force on one axis: lo and hi are the inset bounds
WallForce(c, p, lo, hi, dt) ==
    LET r == WallRadius(c)
        a == IF p - lo < r THEN Mul(Mul(U - Div((p - lo) * U, r), WallStrength), dt)
             ELSE 0
        b == IF hi - p < r THEN Mul(Mul(U - Div((hi - p) * U, r), WallStrength), dt)
             ELSE 0
    IN a - b

\* dot.x += dot.vx * dt * (speed / 100), on one axis
Integrate(c, p, v, dt) == p + Div(Mul(v, dt) * c.speed, 100)

\* WallResolve without the final clamp of the position
WallResolveUnclamped(c, p, v, lo, hi, dt) ==
    LET p1 == Integrate(c, p, v, dt)
        v1 == IF p1 <= lo \/ p1 >= hi THEN Div((-v) * BounceDamping, U) ELSE v
    IN <<p1, v1>>

\* integration, bounce and clamp on one axis: <<position, velocity>>
WallResolve(c, p, v, lo, hi, dt) ==
    LET p1 == Integrate(c, p, v, dt)
        v1 == IF p1 <= lo \/ p1 >= hi THEN Div((-v) * BounceDamping, U) ELSE v
    IN <<Max(lo, Min(hi, p1)), v1>>

\* the velocity of a dot after the neighbour, pointer, impulse and soft wall
\* forces of its turn, before the integration: <<vx, vy>>
Accelerate(s, grid, heap, id, dt) ==
    LET c == s.controls
        dot == heap[id]
        cands == Others(Candidates(s, grid, dot), id)
        a == SumForces(c, heap, id, cands, 1, Len(cands))
        v0 == ClampSpeed(<<dot.vx + Mul(a[1], dt), dot.vy + Mul(a[2], dt)>>)
        m == MouseForce(s, dot.x, dot.y, dt)
        p == ImpulseForce(s, dot.x, dot.y, dt)
    IN <<v0[1] + m[1] + p[1]
           + WallForce(c, dot.x, MinX + dot.size, MaxX(s) - dot.size, dt),
         v0[2] + m[2] + p[2]
           + WallForce(c, dot.y, MinY + dot.size, MaxY(s) - dot.size, dt)>>

\* the body of runMovement's second loop for one dot
MoveDot(s, grid, heap, id, dt) ==
    LET c == s.controls
        dot == heap[id]
        v == Accelerate(s, grid, heap, id, dt)
        rx == WallResolve(c, dot.x, v[1], MinX + dot.size, MaxX(s) - dot.size, dt)
        ry == WallResolve(c, dot.y, v[2], MinY + dot.size, MaxY(s) - dot.size, dt)
    IN [dot EXCEPT !.x = rx[1], !.vx = rx[2], !.y = ry[1], !.vy = ry[2]]

\* the loop body applied to the dots lo..hi of the list, in order (split in
\* halves to keep the evaluation shallow)
RECURSIVE MoveAll(_, _, _, _, _, _)
MoveAll(s, grid, heap, lo, hi, dt) ==
    IF lo > hi THEN heap
    ELSE IF lo = hi
    THEN [heap EXCEPT ![s.dots[lo]] = MoveDot(s, grid, heap, s.dots[lo], dt)]
    ELSE LET mid == (lo + hi) \div 2
             half == MoveAll(s, grid, heap, lo, mid, dt)
         IN IF DOMAIN half = {} THEN half
            ELSE MoveAll(s, grid, half, mid + 1, hi, dt)

DoRunMovement(w, dt) ==
    LET s == w.sim
        grid == RebuildGrid(s)
    IN [w EXCEPT !.sim.gridCells = grid,
                 !.sim.heap = MoveAll(s, grid, s.heap, 1, Len(s.dots), dt),
                 !.sim.needsRender = TRUE]

\* ---------------------------------------------------------------- battles
\* the <<dot, other>> visits of resolveBattles, in the order of its loops:
\* cells row by row, the dots of a cell, the 3x3 block, the dots of a block cell
CellVisits(s, c) ==
    LET cols == Cols(s)
        cells == NeighbourCells((c - 1) % cols, (c - 1) \div cols, cols, Rows(s))
        others == Flatten([k \in DOMAIN cells |-> s.gridCells[cells[k]]])
        cell == s.gridCells[c]
    IN Flatten([i \in DOMAIN cell |->
                  [j \in DOMAIN others |-> <<cell[i], others[j]>>]])
BattleVisits(s) ==
    Flatten([c \in 1..Min(Cols(s) * Rows(s), Len(s.gridCells)) |-> CellVisits(s, c)])

\* (the draw with the roll compared against the weight of the other dot)
DotWinsByOther(dot, other, r) ==
    LET dotWeight == dot.size * dot.size
        otherWeight == other.size * other.size
        roll == (r * (dotWeight + otherWeight)) \div RandDen
    IN roll < otherWeight

\* TRUE when dot wins the draw against other
DotWins(dot, other, r) ==
    LET dotWeight == dot.size * dot.size
        otherWeight == other.size * other.size
        roll == (r * (dotWeight + otherWeight)) \div RandDen
    IN roll < dotWeight

\* (a resolution that gives the loser the faction after the winner's)
BattleStepShifted(st, visit, radiusSq, stream) ==
    LET dot == st.heap[visit[1]]
        other == st.heap[visit[2]]
        dx == other.x - dot.x
        dy == other.y - dot.y
    IN IF visit[1] = visit[2] \/ other.faction = dot.faction THEN st
       ELSE IF dx * dx + dy * dy > radiusSq THEN st
       ELSE [heap |-> IF DotWins(dot, other, Draw(stream, st.n))
                      THEN [st.heap EXCEPT ![visit[2]].faction = dot.faction + 1]
                      ELSE [st.heap EXCEPT ![visit[1]].faction = other.faction + 1],
             n |-> st.n + 1,
             log |-> Append(st.log, visit)]

\* st = [heap, n, log]: the objects, the number of draws taken, the draws
BattleStep(st, visit, radiusSq, stream) ==
    LET dot == st.heap[visit[1]]
        other == st.heap[visit[2]]
        dx == other.x - dot.x
        dy == other.y - dot.y
    IN IF visit[1] = visit[2] \/ other.faction = dot.faction THEN st
       ELSE IF dx * dx + dy * dy > radiusSq THEN st
       ELSE [heap |-> IF DotWins(dot, other, Draw(stream, st.n))
                      THEN [st.heap EXCEPT ![visit[2]].faction = dot.faction]
                      ELSE [st.heap EXCEPT ![visit[1]].faction = other.faction],
             n |-> st.n + 1,
             log |-> Append(st.log, visit)]

\* the visits lo..hi applied in order (split in halves to keep the
\* evaluation shallow)
RECURSIVE BattleFold(_, _, _, _, _, _)
BattleFold(st, visits, lo, hi, radiusSq, stream) ==
    IF lo > hi THEN st
    ELSE IF lo = hi THEN BattleStep(st, visits[lo], radiusSq, stream)
    ELSE LET mid == (lo + hi) \div 2
             half == BattleFold(st, visits, lo, mid, radiusSq, stream)
         IN IF half.n < 0 THEN half
            ELSE BattleFold(half, visits, mid + 1, hi, radiusSq, stream)

DoResolveBattles(w, battleRadius, stream, n0) ==
    LET s == w.sim
        visits == BattleVisits(s)
        st == BattleFold([heap |-> s.heap, n |-> n0, log |-> <<>>],
                         visits, 1, Len(visits),
                         (battleRadius * U) * (battleRadius * U), stream)
    IN [w EXCEPT !.sim.heap = st.heap, !.out.battles = st.log]

\* (ageing that keeps an impulse whose decay has reached 0)
AgeImpulseKept(imp, dt) ==
    IF ~imp.live THEN imp
    ELSE [imp EXCEPT !.elapsed = imp.elapsed + Mul(dt, StepMsC),
                     !.decay = Max(0, U - Div(imp.elapsed + Mul(dt, StepMsC),
                                              ImpulseDuration))]

\* ageing of the radial impulse at the head of update
AgeImpulse(imp, dt) ==
    IF ~imp.live THEN imp
    ELSE LET elapsed == imp.elapsed + Mul(dt, StepMsC)
             decay == Max(0, U - Div(elapsed, ImpulseDuration))
         IN IF decay = 0 THEN NoImpulse
            ELSE [imp EXCEPT !.elapsed = elapsed, !.decay = decay]

\* update that resolves the battles before it moves the dots
DoUpdateBattlesFirst(w, dt, stream, n0) ==
    LET battleRadius == w.sim.controls.battleRadius
        w1 == [w EXCEPT !.sim.clickImpulse = AgeImpulse(w.sim.clickImpulse, dt),
                        !.out.battles = <<>>]
    IN IF battleRadius <= 0 THEN DoRunMovement(w1, dt)
       ELSE DoRunMovement(DoResolveBattles(w1, battleRadius, stream, n0), dt)

\* update without the early return of repulsion-only operation
DoUpdateNoReturn(w, dt, stream, n0) ==
    DoResolveBattles(
        DoRunMovement([w EXCEPT !.sim.clickImpulse = AgeImpulse(w.sim.clickImpulse, dt),
                                !.out.battles = <<>>], dt),
        w.sim.controls.battleRadius, stream, n0)

DoUpdate(w, dt, stream, n0) ==
    LET battleRadius == w.sim.controls.battleRadius
        w1 == [w EXCEPT !.sim.clickImpulse = AgeImpulse(w.sim.clickImpulse, dt),
                        !.out.battles = <<>>]
    IN IF battleRadius <= 0 THEN DoRunMovement(w1, dt)
       ELSE DoResolveBattles(DoRunMovement(w1, dt), battleRadius, stream, n0)

\* ------------------------------------------------------ render and stats
\* App's getFactionColor: the palette index, NaN standing for the fallback colour
FactionColor(n, faction) == IF n > 0 THEN faction % n ELSE NaN

DoRender(w) ==
    LET s == w.sim
        imp == s.clickImpulse
        gone == s.paused /\ s.hoverDot # NULL /\ s.hoverDot \notin Range(s.dots)
        shown == s.paused /\ s.hoverDot # NULL /\ s.hoverDot \in Range(s.dots)
        pic == [border |-> TRUE,
                ring |-> IF ~imp.live THEN <<>>
                         ELSE <<imp.x, imp.y,
                                Mul(ImpulseRadius * U,
                                    Min(U, Div(imp.elapsed, ImpulseDuration)))>>,
                dots |-> [i \in DOMAIN s.dots |->
                            LET d == DotAt(s, i)
                            IN <<d.x, d.y, d.size,
                                 FactionColor(w.env.palette, d.faction)>>],
                hover |-> IF shown
                          THEN <<s.heap[s.hoverDot].x, s.heap[s.hoverDot].y,
                                 s.heap[s.hoverDot].size + 2 * U>>
                          ELSE <<>>]
    IN [w EXCEPT !.out.canvas = pic,
                 !.sim.hoverDot = IF gone THEN NULL ELSE s.hoverDot]

\* counts of updateStats: counts[f]++ on a slot past the palette length
\* leaves NaN there and holes in the slots it skipped
StatsCounts(s, factions) ==
    LET used == { s.heap[i].faction : i \in Range(s.dots) }
        top == IF used = {} THEN 0
               ELSE (CHOOSE f \in used : \A g \in used : g <= f) + 1
    IN [k \in 1..Max(factions, top) |->
          IF k <= factions
          THEN Cardinality({ i \in DOMAIN s.dots : DotAt(s, i).faction = k - 1 })
          ELSE IF (k - 1) \in used THEN NaN ELSE Hole]

DoUpdateStats(w) ==
    [w EXCEPT !.app = [statsFactions |-> StatsCounts(w.sim, w.env.palette),
                       statsTotal |-> Len(w.sim.dots),
                       statsFps |-> w.sim.fps]]

\* -------------------------------------------------------------- the loop
\* (dt from the wall-clock delta as it is, without the clamp)
LoopDtUnclamped(ts, lastTime) == Div((ts - lastTime) * U * U, StepMsC)
\* dt of loop: Math.min(32, timestamp - lastTime) / 16.67
LoopDt(ts, lastTime) == Div(Min(MaxDeltaMs, ts - lastTime) * U * U, StepMsC)

\* the three conditions of loop
\* (the update condition without its test of the paused flag)
ShouldUpdateAnyway(paused, simDeltaMs, targetFps) ==
    simDeltaMs * targetFps >= 1000
ShouldUpdate(paused, simDeltaMs, targetFps) ==
    ~paused /\ simDeltaMs * targetFps >= 1000
\* (the render condition of a loop that always renders)
ShouldRenderAlways(paused, needsRender) == TRUE
ShouldRender(paused, needsRender) == ~paused \/ needsRender
ShouldEmit(ts, nextStatsUpdate) == ts >= nextStatsUpdate

NextFps(s, ts) ==
    LET frameMs == ts - s.lastFrameTime
        currentFps == (1000 * U) \div frameMs
    IN IF s.lastFrameTime # 0 /\ frameMs > 0
       THEN IF s.fps # 0 THEN (s.fps * 9 + currentFps) \div 10 ELSE currentFps
       ELSE s.fps

\* the rest of the physics branch, u being the state that update(dt) left
FinishUpdate(u, ts) ==
    [u EXCEPT !.sim.lastSimulationTime = ts,
              !.sim.fps = NextFps(u.sim, ts),
              !.sim.lastFrameTime = ts]

\* loop from the reading of the focus to the end of the physics branch
LoopUpdate(w, ts, stream, n0) ==
    LET targetFps == IF w.env.focused THEN FocusedFps ELSE BlurredFps
        run == ShouldUpdate(w.sim.paused, ts - w.sim.lastSimulationTime, targetFps)
        dt == LoopDt(ts, w.sim.lastTime)
    IN IF run
       THEN FinishUpdate(
              DoUpdate([w EXCEPT !.sim.targetFps = targetFps,
                                 !.sim.lastTime = ts,
                                 !.out.frame = [NoFrame EXCEPT !.ts = ts,
                                                               !.updated = TRUE,
                                                               !.dt = dt]],
                       dt, stream, n0),
              ts)
       ELSE IF w.sim.paused
       THEN [w EXCEPT !.sim.targetFps = targetFps,
                      !.sim.lastTime = ts,
                      !.sim.lastSimulationTime = ts,
                      !.out.frame = [NoFrame EXCEPT !.ts = ts]]
       ELSE [w EXCEPT !.sim.targetFps = targetFps,
                      !.out.frame = [NoFrame EXCEPT !.ts = ts]]

\* the render branch of loop
LoopRender(w) ==
    IF ShouldRender(w.sim.paused, w.sim.needsRender)
    THEN [DoRender(w) EXCEPT !.sim.needsRender = FALSE,
                             !.out.frame.rendered = TRUE]
    ELSE w

\* (the statistics branch without the advance of nextStatsUpdate)
LoopStatsUnthrottled(w, ts) ==
    IF ShouldEmit(ts, w.sim.nextStatsUpdate)
    THEN [DoUpdateStats(w) EXCEPT !.out.frame.emitted = TRUE,
                                  !.out.emitTs = ts]
    ELSE w

\* the statistics branch of loop; out.emitTs records the timestamp of the
\* callback that last invoked onStatsChange
LoopStats(w, ts) ==
    IF ShouldEmit(ts, w.sim.nextStatsUpdate)
    THEN [DoUpdateStats(w) EXCEPT !.sim.nextStatsUpdate = ts + StatsInterval,
                                  !.out.frame.emitted = TRUE,
                                  !.out.emitTs = ts]
    ELSE w

\* TRUE when loop calls update and the grid rebuild of runMovement throws
UpdateThrows(w, ts) ==
    /\ ShouldUpdate(w.sim.paused, ts - w.sim.lastSimulationTime,
                    IF w.env.focused THEN FocusedFps ELSE BlurredFps)
    /\ GridThrows(w.sim)

\* loop left by the error: the impulse has aged and the grid is empty, and
\* nothing after the call of update has run (no new callback is requested)
LoopThrown(w, ts) ==
    [w EXCEPT !.sim.targetFps = IF w.env.focused THEN FocusedFps ELSE BlurredFps,
              !.sim.lastTime = ts,
              !.sim.clickImpulse = AgeImpulse(w.sim.clickImpulse,
                                              LoopDt(ts, w.sim.lastTime)),
              !.sim.gridCells = <<>>,
              !.out.battles = <<>>,
              !.out.frame = [NoFrame EXCEPT !.ts = ts],
              !.out.error = TRUE]

DoLoop(w, ts, stream, n0) ==
    IF w.env.hidden
    THEN RequestFrame([w EXCEPT !.sim.lastFrameTime = ts,
                                !.sim.lastSimulationTime = ts,
                                !.sim.needsRender = FALSE,
                                !.out.frame = [NoFrame EXCEPT !.ts = ts]])
    ELSE IF UpdateThrows(w, ts) THEN LoopThrown(w, ts)
    ELSE RequestFrame(LoopStats(LoopRender(LoopUpdate(w, ts, stream, n0)), ts))

\* new Array(count) in init throws a RangeError on a negative count
InitThrows(w) == w.env.palette # 0 /\ w.sim.controls.count < 0

\* start; the loop's draws follow the six draws per dot of init; an error
\* thrown by init leaves start after resizeCanvas and reaches the caller
DoStart(w, stream) ==
    IF InitThrows(w)
    THEN [DoResizeCanvas(DoStop(w)) EXCEPT !.out.error = TRUE]
    ELSE DoLoop(DoInit(DoResizeCanvas(DoStop(w)), stream), w.env.clock, stream,
                IF w.env.palette = 0 THEN 0 ELSE 6 * w.sim.controls.count)

\* ---------------------------------------------------------------- actions
\* sim.start(): App's mount effect and handleRestart
Start(stream) ==
    /\ env.nextHandle <= MaxFrames
    /\ Apply(DoStart(World, stream))

\* sim.stop()
Stop == Apply(DoStop(World))

\* the browser runs a scheduled animation callback, gap ms after the
\* previous reading of the clock
FrameUpTo(cap, gap, stream) ==
    /\ env.nextHandle <= cap
    /\ \E h \in env.pending :
         LET w == [World EXCEPT !.env.clock = env.clock + gap,
                                !.env.pending = env.pending \ {h}]
         IN Apply(DoLoop(w, env.clock + gap, stream, 0))
Frame(gap, stream) == FrameUpTo(MaxFrames, gap, stream)

SetControls(next) == Apply(DoSetControls(World, next))

\* App: setPalette state change; its effects store the palette in
\* paletteRef and call sim.setPalette
PaletteChange(n) ==
    /\ n # env.palette
    /\ Apply(DoSetPalette([World EXCEPT !.env.palette = n], n))

SetPaused(p) == Apply(DoSetPaused(World, p))

SetMenuDotAt(pt) == Apply(DoSetMenuDotAt(World, pt[1] * U, pt[2] * U))
ClearMenuDot == Apply(DoClearMenuDot(World))
UpdateMenuDotSize(size) == Apply(DoUpdateMenuDotSize(World, size * U))
\* the swatches of the context menu are the entries of the palette
UpdateMenuDotFaction(faction) ==
    /\ faction < env.palette
    /\ Apply(DoUpdateMenuDotFaction(World, faction))

\* StatsPanel renders one button per entry of the last emitted counts
\* (Array.map skips holes); a click reaches App.handleFactionClick
HasButton(faction) ==
    /\ faction + 1 \in DOMAIN app.statsFactions
    /\ app.statsFactions[faction + 1] # Hole
FactionClick(faction, shiftKey, stream) ==
    /\ HasButton(faction)
    /\ IF shiftKey THEN Apply(DoSetAllToFaction(World, faction))
       ELSE /\ Len(sim.dots) + BatchSize <= MaxDots
            /\ Apply(DoAddDotsForFaction(World, faction, stream))
\* App.handleFactionContextMenu
FactionContextMenu(faction, shiftKey) ==
    /\ HasButton(faction)
    /\ Apply(DoRemoveFactionDots(World, faction,
                                 IF shiftKey THEN Undefined ELSE BatchSize))
RemoveFactionDots(faction, count) ==
    Apply(DoRemoveFactionDots(World, faction, count))

CanvasClick(pt, shiftKey, stream) ==
    /\ FindDotAt(sim, pt[1] * U, pt[2] * U) # NULL
         => Len(sim.dots) + BatchSize <= MaxDots
    /\ Apply(DoHandleCanvasClick(World, pt[1] * U, pt[2] * U, shiftKey, stream))
MouseMove(pt) == Apply(DoHandleMouseMove(World, pt[1] * U, pt[2] * U))
MouseLeave == Apply(DoHandleMouseLeave(World))

\* the page layout changes the canvas rect; App's scheduleResize then
\* calls sim.resizeCanvas from a later animation frame
Layout(r) == /\ r # env.rect
             /\ Apply([World EXCEPT !.env.rect = r])
ResizeCanvas == Apply(DoResizeCanvas(World))
Visibility(h) == /\ h # env.hidden
                 /\ Apply([World EXCEPT !.env.hidden = h])
Focus(f) == /\ f # env.focused
            /\ Apply([World EXCEPT !.env.focused = f])

\* ---------------------------------------------------------- specifications
\* steps in which loop ran (every run of loop requests a new frame), and
\* those among them that were animation callbacks (the clock moved on)
LoopRan == env'.nextHandle > env.nextHandle
FrameStep == LoopRan /\ env'.clock > env.clock
StartStep == LoopRan /\ env'.clock = env.clock
Ticked == LoopRan /\ out'.frame.updated

\* the streams worth telling apart for the next animation callback: the
\* draws differ only if a battle can be drawn, which takes a tick with a
\* positive battle radius and two factions among the dots
DrawsMatter ==
    /\ ~sim.paused /\ ~env.hidden /\ sim.controls.battleRadius > 0
    /\ \E i, j \in DOMAIN sim.dots : DotAt(sim, i).faction # DotAt(sim, j).faction
FrameStreams == IF DrawsMatter THEN Streams ELSE {LowStream}

InitFrom(cs, rs, ps) ==
    /\ Init
    /\ sim.controls \in cs
    /\ env.rect \in rs
    /\ env.palette \in ps

\* the gap of a 60 Hz display, in ms
PhysicsGaps == { 17 }

\* battles: a population is spawned and ticks run
NextBattle ==
    \/ \E st \in Streams : Start(st)
    \/ \E g \in PhysicsGaps, st \in FrameStreams : Frame(g, st)
SpecBattle == InitFrom({BaseControls}, {<<40, 40>>}, {2, 3}) /\ [][NextBattle]_vars

\* palette: the palette is edited and the faction buttons are used while
\* statistics are emitted
Factions == 0..2
NextPalette ==
    \/ Start(MixedStream)
    \/ Frame(StatsInterval + 10, MixedStream)
    \/ \E n \in PaletteLens : PaletteChange(n)
    \/ \E f \in Factions : FactionClick(f, TRUE, LowStream)
SpecPalette == InitFrom({BaseControls}, {<<40, 40>>}, {3}) /\ [][NextPalette]_vars

\* physics: ticks under the pointer force, the radial impulse and a canvas
\* whose rect changes
PhysicsControls == { BaseControls,
                     [BaseControls EXCEPT !.mouseAttraction = 100, !.speed = 300] }
\* a click below the arena, where no dot can be hit
ImpulsePoint == <<30, 30>>
PointerPoint == <<16, 14>>
NextPhysics ==
    \/ Start(MixedStream)
    \/ \E g \in PhysicsGaps : Frame(g, LowStream)
    \/ MouseMove(PointerPoint)
    \/ CanvasClick(ImpulsePoint, TRUE, LowStream)
    \/ \E r \in Rects : Layout(r)
    \/ ResizeCanvas
SpecPhysics == InitFrom(PhysicsControls, Rects, {2}) /\ [][NextPhysics]_vars

\* spawning: populations are spawned, extended and cloned while the size
\* range and single sizes are edited
SpawnControls == { [InvertedControls EXCEPT !.count = 2] }
NextSpawn ==
    \/ Start(MixedStream)
    \/ \E next \in SpawnControls : SetControls(next)
    \/ FactionClick(1, FALSE, HighStream)
    \/ CanvasClick(PointerPoint, FALSE, MixedStream)
    \/ SetMenuDotAt(PointerPoint)
    \/ \E size \in MenuSizes : UpdateMenuDotSize(size)
SpecSpawn == InitFrom({BaseControls}, {<<40, 40>>}, {2}) /\ [][NextSpawn]_vars

\* editing: the controls are replaced and the simulation restarted while
\* it runs
RepelControls == [BaseControls EXCEPT !.battleRadius = 0, !.repelAll = TRUE,
                                      !.maxSize = 10, !.count = 2]
EditControls == { BaseControls, RepelControls }
NextEdit ==
    \/ Start(MixedStream)
    \/ \E next \in EditControls : SetControls(next)
    \/ \E g \in PhysicsGaps : Frame(g, LowStream)
    \/ SetPaused(TRUE)
    \/ CanvasClick(ImpulsePoint, TRUE, LowStream)
    \/ SetMenuDotAt(PointerPoint)
    \/ \E n \in {0, 2} : PaletteChange(n)
SpecEdit == InitFrom({RepelControls}, {<<40, 40>>}, {2}) /\ [][NextEdit]_vars

\* loop: animation callbacks arrive while the simulation is paused and
\* resumed and the page is hidden, shown, focused and blurred
NextLoop ==
    \/ Start(MixedStream)
    \/ \E g \in FrameGaps : Frame(g, LowStream)
    \/ \E p \in BOOLEAN : SetPaused(p)
    \/ \E h \in BOOLEAN : Visibility(h)
    \/ \E f \in BOOLEAN : Focus(f)
    \/ CanvasClick(ImpulsePoint, TRUE, LowStream)
SpecLoop == InitFrom({BaseControls}, {<<40, 40>>}, {2}) /\ [][NextLoop]_vars

\* stopping: the loop is stopped and restarted while it runs, paused or not
NextStop ==
    \/ Start(MixedStream)
    \/ Stop
    \/ \E g \in FrameGaps : Frame(g, LowStream)
    \/ \E p \in BOOLEAN : SetPaused(p)
    \/ \E h \in BOOLEAN : Visibility(h)
SpecStop == InitFrom({BaseControls}, {<<40, 40>>}, {2}) /\ [][NextStop]_vars

\* removal: dots of a faction are added to and removed from a population
\* spawned by the first start(), through the statistics panel and directly
\* (a batch is added only to a population not edited since it was rendered)
NextRemove ==
    \/ sim.rafId = NULL /\ Start(MixedStream)
    \/ \E f \in Factions, n \in RemoveCounts : RemoveFactionDots(f, n)
    \/ \E f \in Factions, k \in BOOLEAN : FactionContextMenu(f, k)
    \/ \E f \in Factions :
         /\ ~sim.needsRender
         /\ FactionClick(f, FALSE, HighStream)
SpecRemove == InitFrom({BaseControls}, {<<40, 40>>}, {2}) /\ [][NextRemove]_vars

\* adding: batches are added to a population spawned by the first start(),
\* under size sliders set in either order and on a canvas that can be
\* narrower than the horizontal padding
AddControls == { BaseControls, InvertedControls }
AddRects == { <<40, 40>>, <<20, 40>> }
AddStreams == { HighStream, MixedStream }
NextAdd ==
    \/ sim.rafId = NULL /\ Start(MixedStream)
    \/ \E next \in AddControls : SetControls(next)
    \/ \E f \in Factions, st \in AddStreams : FactionClick(f, FALSE, st)
    \/ \E f \in Factions : FactionClick(f, TRUE, LowStream)
    \/ \E r \in AddRects : Layout(r)
    \/ ResizeCanvas
SpecAdd == InitFrom({BaseControls}, AddRects, {2}) /\ [][NextAdd]_vars

\* out-of-range controls: controls with a negative battle radius, pointer
\* range or count are handed to setControls while the simulation runs and
\* is restarted under the pointer
RangeControls == { BaseControls,
                   [BaseControls EXCEPT !.battleRadius = 0],
                   [BaseControls EXCEPT !.battleRadius = -5],
                   [BaseControls EXCEPT !.mouseAttraction = 100, !.mouseRange = -100],
                   [BaseControls EXCEPT !.count = -1] }
NextRange ==
    \/ Start(MixedStream)
    \/ \E next \in RangeControls : SetControls(next)
    \/ \E g \in PhysicsGaps : Frame(g, LowStream)
    \/ MouseMove(PointerPoint)
SpecRange == InitFrom({BaseControls}, {<<40, 40>>}, {2}) /\ [][NextRange]_vars

\* forces: ticks run under each combination of the repel-all switch and a
\* zero or positive battle radius
ForceControls == { BaseControls,
                   [BaseControls EXCEPT !.battleRadius = 0],
                   [BaseControls EXCEPT !.repelAll = TRUE],
                   [BaseControls EXCEPT !.battleRadius = 0, !.repelAll = TRUE] }
NextForce ==
    \/ Start(MixedStream)
    \/ \E next \in ForceControls : SetControls(next)
    \/ \E g \in PhysicsGaps : Frame(g, LowStream)
SpecForce == InitFrom({BaseControls}, {<<40, 40>>}, {2}) /\ [][NextForce]_vars

\* grid: nine dots spawned one per cell of a 3 x 3 block tick with battles
\* on a canvas of 4 x 5 cells, which can lose its layout
NextGrid ==
    \/ sim.rafId = NULL /\ Start(BlockStream)
    \/ \E g \in PhysicsGaps : Frame(g, LowStream)
    \/ \E p \in BOOLEAN : SetPaused(p)
    \/ \E r \in {GridRect, NoRect} : Layout(r)
    \/ ResizeCanvas
SpecGrid == InitFrom({GridControls}, {GridRect}, {2}) /\ [][NextGrid]_vars

\* impulse: radial impulses are created early in the run of a started
\* simulation whose animation callbacks arrive after stalls and go on for
\* long enough to age the last impulse to its duration (a tick ages it by at
\* most 32 ms)
ImpulseTicks == (ImpulseDuration \div MaxDeltaMs) + 2
LateFrame == FrameUpTo(MaxFrames + ImpulseTicks, StatsInterval + 10, LowStream)
NextImpulse ==
    \/ sim.rafId = NULL /\ Start(MixedStream)
    \/ LateFrame
    \/ /\ sim.rafId # NULL /\ env.nextHandle <= MaxFrames
       /\ CanvasClick(ImpulsePoint, TRUE, LowStream)
    \/ MouseMove(PointerPoint)
\* the browser runs every scheduled animation callback: weak fairness of
\* LateFrame, WF_vars(LateFrame), with ENABLED <<LateFrame>>_vars written out
\* as the condition that a callback is pending and may still run
FrameDue == env.nextHandle <= MaxFrames + ImpulseTicks /\ env.pending # {}
SpecImpulse ==
    /\ InitFrom({BaseControls}, {<<40, 40>>}, {2})
    /\ [][NextImpulse]_vars
    /\ ([]<>(~FrameDue) \/ []<><<LateFrame>>_vars)

\* ------------------------------------------------------------------ claims
\* C1: within one tick no unordered pair of dots undergoes two battle draws.
PairDraws(a, b) ==
    Cardinality({ k \in DOMAIN out.battles :
                    out.battles[k] = <<a, b>> \/ out.battles[k] = <<b, a>> })
C1_PairDecidedOncePerTick ==
    \A a, b \in Range(sim.dots) : PairDraws(a, b) <= 1

\* C2: in every emitted statistics payload the per-faction counts add up to
\* the emitted total, and the total is the number of dots at the emission.
RECURSIVE SumCounts(_, _)
SumCounts(counts, k) ==
    IF k > Len(counts) THEN 0
    ELSE LET rest == SumCounts(counts, k + 1)
         IN IF counts[k] = NaN \/ rest = NaN THEN NaN
            ELSE IF counts[k] = Hole THEN rest
            ELSE counts[k] + rest
C2_StatsSumIsTotal ==
    /\ SumCounts(app.statsFactions, 1) = app.statsTotal
    /\ out.frame.emitted /\ out.frame.ts = env.clock /\ sim.rafId \in env.pending
         /\ ~sim.needsRender
         => app.statsTotal = Len(sim.dots)

\* C3: every dot's faction is a valid index into the current palette.
C3_FactionIndexesPalette ==
    \A i \in DOMAIN sim.dots : DotAt(sim, i).faction < env.palette


\* C4 (as stated): after the wall resolution of a tick every dot's centre is
\* inside the arena bounds inset by its radius, on both axes.
InsetX(s, d) == MinX + d.size <= d.x /\ d.x <= MaxX(s) - d.size
InsetY(s, d) == MinY + d.size <= d.y /\ d.y <= MaxY(s) - d.size
C4_InsideInsetBounds ==
    [][Ticked => \A i \in DOMAIN sim'.dots :
                   InsetX(sim', DotAt(sim', i)) /\ InsetY(sim', DotAt(sim', i))]_vars
\* C4 (amended): after the wall resolution of a tick every dot's centre is at
\* or beyond the lower inset bound, and at or below the upper inset bound
\* whenever the arena is at least as wide as the dot (the inset interval is
\* not empty) on that axis.
AxisOK(p, lo, hi) == lo <= p /\ (lo <= hi => p <= hi)
C4_InsideInsetBoundsWhenFits ==
    [][Ticked => \A i \in DOMAIN sim'.dots :
          LET d == DotAt(sim', i)
          IN /\ AxisOK(d.x, MinX + d.size, MaxX(sim') - d.size)
             /\ AxisOK(d.y, MinY + d.size, MaxY(sim') - d.size)]_vars
\* a tick has just pushed a dot back onto the left inset bound of an arena
\* that is wide enough for it
C4_Witness ==
    /\ out.frame.updated /\ out.frame.ts = env.clock
    /\ \E i \in DOMAIN sim.dots :
         LET d == DotAt(sim, i)
         IN /\ d.x = MinX + d.size
            /\ MinX + d.size < MaxX(sim) - d.size
            /\ InsetY(sim, d)

\* C5: after a tick every dot's speed is at most the cap.
C5_SpeedWithinCap ==
    [][Ticked => \A i \in DOMAIN sim'.dots :
                   Hypot(DotAt(sim', i).vx, DotAt(sim', i).vy) <= MaxSpeed]_vars


\* C6 (as stated): at all times every dot's size lies within the size range
\* of the controls in force.
SizeInRange(c, d) == c.minSize * U <= d.size /\ d.size <= c.maxSize * U
C6_SizeWithinRange ==
    \A i \in DOMAIN sim.dots : SizeInRange(sim.controls, DotAt(sim, i))
\* C6 (amended): every dot, when it is spawned (by init, addDotsForFaction or
\* as a click-spawned clone), has a size between the minSize and the maxSize
\* of the controls in force at that moment, so within [minSize, maxSize] when
\* minSize <= maxSize; later changes of the range or of the dot's size are
\* not reconciled.
SizeBetween(c, d) ==
    /\ IF c.minSize <= c.maxSize THEN c.minSize * U <= d.size ELSE c.maxSize * U <= d.size
    /\ IF c.minSize <= c.maxSize THEN d.size <= c.maxSize * U ELSE d.size <= c.minSize * U
C6_SpawnedSizeWithinRange ==
    [][/\ StartStep =>
            \A i \in DOMAIN sim'.dots : SizeBetween(sim.controls, DotAt(sim', i))
       /\ ~StartStep /\ Len(sim'.dots) > Len(sim.dots) =>
            \A i \in (Len(sim.dots) + 1)..Len(sim'.dots) :
               SizeBetween(sim.controls, DotAt(sim', i))]_vars
\* a batch has been added to a spawned population, with sizes that differ
C6_Witness ==
    /\ Len(sim.dots) > BatchSize
    /\ \A i \in DOMAIN sim.dots : SizeInRange(sim.controls, DotAt(sim, i))
    /\ \E i, j \in DOMAIN sim.dots : DotAt(sim, i).size # DotAt(sim, j).size

C9_NoPhysicsWhilePaused ==
    [][FrameStep /\ sim.paused =>
          /\ ~out'.frame.updated
          /\ sim'.dots = sim.dots
          /\ \A id \in Range(sim.dots) : sim'.heap[id] = sim.heap[id]
          /\ sim'.clickImpulse = sim.clickImpulse]_vars
\* an animation callback has run while paused, with dots and a live impulse
C9_Witness ==
    /\ sim.paused /\ sim.clickImpulse.live /\ sim.dots # <<>>
    /\ out.frame.ts = env.clock /\ \A t \in InitClocks : env.clock > t
    /\ ~out.frame.updated

Picture(s) ==
    [i \in DOMAIN s.dots |-> <<DotAt(s, i).x, DotAt(s, i).y, DotAt(s, i).size>>]
Drawn(canvas) ==
    [i \in DOMAIN canvas.dots |-> <<canvas.dots[i][1], canvas.dots[i][2],
                                    canvas.dots[i][3]>>]
C11_StoppedUntilStart ==
    [][sim.rafId = NULL =>
          /\ env.pending = {}
          /\ DoStop(World) = World
          /\ ~StartStep => /\ ~LoopRan
                           /\ out' = out /\ app' = app
                           /\ sim'.dots = sim.dots /\ sim'.heap = sim.heap]_vars
\* the loop was stopped after an animation callback had ticked a population
C11_Witness ==
    /\ sim.rafId = NULL /\ env.pending = {}
    /\ sim.dots # <<>> /\ out.frame.updated
    /\ \A t \in InitClocks : out.frame.ts > t

\* C12: removeFactionDots(f, n) with a count n >= 0 removes exactly
\* min(n, k) dots, k being the number of dots of faction f, and all k without
\* a count; it removes only dots of faction f, keeps the other dots in their
\* order and changes no dot.
FactionSize(s, f) == Cardinality({ i \in DOMAIN s.dots : DotAt(s, i).faction = f })
RemovesOnly(s, f, after, m) ==
    /\ Len(after) = Len(s.dots) - m
    /\ after = SelectSeq(s.dots, LAMBDA id : id \in Range(after))
    /\ \A id \in Range(s.dots) \ Range(after) : s.heap[id].faction = f
C12_RemovesUpToCount ==
    \A f \in Factions, n \in RemoveCounts :
       LET w == DoRemoveFactionDots(World, f, n)
           k == FactionSize(sim, f)
       IN /\ RemovesOnly(sim, f, w.sim.dots, IF n = Undefined THEN k ELSE Min(n, k))
          /\ w.sim.heap = sim.heap

\* C13 (as stated): addDotsForFaction(f), called for a faction the panel
\* shows, appends exactly 50 new dots of faction f, each with a size within
\* [minSize, maxSize] and a position inside the padded arena, and leaves the
\* dots already there as they were.
InArena(s, d) ==
    /\ MinX <= d.x /\ d.x <= MaxX(s)
    /\ MinY <= d.y /\ d.y <= MaxY(s)
AppendsBatch(s, t, f) ==
    /\ Len(t.dots) = Len(s.dots) + BatchSize
    /\ SubSeq(t.dots, 1, Len(s.dots)) = s.dots
    /\ \A id \in LiveIds(s) : t.heap[id] = s.heap[id]
    /\ \A i \in (Len(s.dots) + 1)..Len(t.dots) :
          /\ t.dots[i] \notin LiveIds(s)
          /\ \A j \in 1..(i - 1) : t.dots[j] # t.dots[i]
          /\ DotAt(t, i).faction = f
C13_AppendsFiftyInRange ==
    \A f \in Factions, st \in AddStreams :
       HasButton(f) =>
          LET t == DoAddDotsForFaction(World, f, st).sim
          IN /\ AppendsBatch(sim, t, f)
             /\ \A i \in (Len(sim.dots) + 1)..Len(t.dots) :
                   SizeInRange(sim.controls, DotAt(t, i)) /\ InArena(sim, DotAt(t, i))
\* C13 (amended): addDotsForFaction(f) appends exactly 50 new dots of faction
\* f and leaves the dots already there as they were; each new dot's size lies
\* between minSize and maxSize and its position between the padding lines of
\* each axis, in whichever order these stand: within [minSize, maxSize] when
\* minSize <= maxSize, and inside the padded arena when the canvas is at
\* least as large as the padding.
Between(v, a, b) == Min(a, b) <= v /\ v <= Max(a, b)
C13_AppendsFiftyBetween ==
    \A f \in Factions, st \in AddStreams :
       HasButton(f) =>
          LET t == DoAddDotsForFaction(World, f, st).sim
          IN /\ AppendsBatch(sim, t, f)
             /\ \A i \in (Len(sim.dots) + 1)..Len(t.dots) :
                   LET d == DotAt(t, i)
                   IN /\ Between(d.size, sim.controls.minSize * U,
                                  sim.controls.maxSize * U)
                      /\ Between(d.x, MinX, MaxX(sim))
                      /\ Between(d.y, MinY, MaxY(sim))
                      /\ sim.controls.minSize <= sim.controls.maxSize
                           => SizeInRange(sim.controls, d)
                      /\ MinX <= MaxX(sim) /\ MinY <= MaxY(sim) => InArena(sim, d)
\* a batch of sizes that differ has been added behind a spawned population,
\* inside the arena
C13_Witness ==
    /\ Len(sim.dots) = sim.controls.count + BatchSize
    /\ \E i, j \in (sim.controls.count + 1)..Len(sim.dots) :
          DotAt(sim, i).size # DotAt(sim, j).size
    /\ \A i \in (sim.controls.count + 1)..Len(sim.dots) :
          InArena(sim, DotAt(sim, i)) /\ SizeInRange(sim.controls, DotAt(sim, i))

\* C14: controls with a negative battle radius, pointer range or count act
\* as the nearest valid value (0): the next animation callback and the next
\* start() leave the state that they leave under the clamped controls, and
\* raise no error.
ClampControls(c) ==
    [c EXCEPT !.battleRadius = Max(0, c.battleRadius),
              !.mouseRange = Max(0, c.mouseRange),
              !.count = Max(0, c.count)]
Clamped(w) == [w EXCEPT !.sim.controls = ClampControls(w.sim.controls)]
Callback(w, gap) ==
    DoLoop([w EXCEPT !.env.clock = w.env.clock + gap], w.env.clock + gap,
           LowStream, 0)
C14_OutOfRangeActsClamped ==
    /\ ~out.error
    /\ \A g \in PhysicsGaps :
          sim.rafId # NULL => Clamped(Callback(World, g)) = Callback(Clamped(World), g)
    /\ Clamped(DoStart(World, MixedStream)) = DoStart(Clamped(World), MixedStream)

\* C15: an animation callback that ticks in repulsion-only operation (battle
\* radius <= 0) leaves the dot list and the faction of every dot as they were.
C15_RepulsionKeepsFactions ==
    [][FrameStep /\ out'.frame.updated /\ sim.controls.battleRadius <= 0 =>
          /\ sim'.dots = sim.dots
          /\ out'.battles = <<>>
          /\ \A id \in Range(sim.dots) :
                sim'.heap[id].faction = sim.heap[id].faction]_vars
\* a callback has ticked in repulsion-only operation with two dots of
\* different factions within 5 px of each other
C15_Witness ==
    /\ out.frame.updated /\ \A t \in InitClocks : out.frame.ts > t
    /\ sim.controls.battleRadius <= 0
    /\ \E i, j \in DOMAIN sim.dots :
          /\ DotAt(sim, i).faction # DotAt(sim, j).faction
          /\ Hypot(DotAt(sim, i).x - DotAt(sim, j).x,
                   DotAt(sim, i).y - DotAt(sim, j).y) <= 5 * U

\* C16 (as stated): the force a dot receives from a neighbour points away
\* from the neighbour when both have the same faction and toward it when the
\* factions differ; in repulsion-only operation (battle radius <= 0) it
\* points away from every neighbour.
PointsAway(f, d, o) == f[1] * (o.x - d.x) <= 0 /\ f[2] * (o.y - d.y) <= 0
PointsToward(f, d, o) == f[1] * (o.x - d.x) >= 0 /\ f[2] * (o.y - d.y) >= 0
ForceDirected(c, d, o, repelling) ==
    IF repelling \/ o.faction = d.faction
    THEN PointsAway(NeighbourForce(c, d, o), d, o)
    ELSE PointsToward(NeighbourForce(c, d, o), d, o)
StoredCell(s, id) == CHOOSE c \in DOMAIN s.gridCells : id \in Range(s.gridCells[c])
AdjacentCells(a, b, cols) ==
    /\ Abs(((a - 1) % cols) - ((b - 1) % cols)) <= 1
    /\ Abs(((a - 1) \div cols) - ((b - 1) \div cols)) <= 1
WithinSq(d, o, r) == (o.x - d.x) * (o.x - d.x) + (o.y - d.y) * (o.y - d.y) <= r * r
C17_BattlePairsAdjacent ==
    [][Ticked /\ sim'.controls.battleRadius > 0 =>
          \A i, j \in Range(sim'.dots) :
             WithinSq(sim'.heap[i], sim'.heap[j], sim'.controls.battleRadius * U)
               => AdjacentCells(StoredCell(sim', i), StoredCell(sim', j), Cols(sim'))]_vars

\* C18: any two dots of which one is within the effective influence radius
\* of the other lie in the same cell or in adjacent cells of the grid.
CellOf(s, d) ==
    <<CellCoord(d.x, Cols(s), CellSize(s.controls)),
      CellCoord(d.y, Rows(s), CellSize(s.controls))>>
Neighbouring(a, b) == Abs(a[1] - b[1]) <= 1 /\ Abs(a[2] - b[2]) <= 1
C18_InteractingPairsAdjacent ==
    \A i, j \in DOMAIN sim.dots :
       WithinSq(DotAt(sim, i), DotAt(sim, j), EffectiveRadius(sim.controls, DotAt(sim, j)))
         => Neighbouring(CellOf(sim, DotAt(sim, i)), CellOf(sim, DotAt(sim, j)))

\* C19: the grid rebuild of a tick raises no error (the bucket of every dot
\* exists) and leaves every dot of the list in exactly one bucket, once, the
\* one at its clamped cell coordinates.
Occurrences(grid, id) ==
    { <<c, k>> \in (DOMAIN grid) \X (1..MaxDots) :
         k \in DOMAIN grid[c] /\ grid[c][k] = id }
C19_OneBucketPerDot ==
    [][/\ ~out'.error
       /\ FrameStep /\ out'.frame.updated =>
            \A id \in Range(sim.dots) :
               \E c \in DOMAIN sim'.gridCells :
                  /\ c = CellIndex(sim, sim.heap[id])
                  /\ Cardinality(Occurrences(sim'.gridCells, id)) = 1
                  /\ id \in Range(sim'.gridCells[c])]_vars

\* C20: the neighbour candidates of a dot in the force pass are the other
\* dots whose cell is the dot's own or adjacent to it, each once: never the
\* dot itself, never a dot of a cell further away.
ForceCandidates(s, grid, id) == Others(Candidates(s, grid, s.heap[id]), id)
CandidatesAreBlock(s, grid, id) ==
    /\ Range(ForceCandidates(s, grid, id)) =
          { o \in Range(s.dots) \ {id} :
              Neighbouring(CellOf(s, s.heap[id]), CellOf(s, s.heap[o])) }
    /\ Len(ForceCandidates(s, grid, id)) =
          Cardinality(Range(ForceCandidates(s, grid, id)))
C20_CandidatesAreBlock ==
    Cols(sim) * Rows(sim) > 0 =>
       \A id \in Range(sim.dots) : CandidatesAreBlock(sim, RebuildGrid(sim), id)
\* nine dots stand one per cell of a 3 x 3 block and the candidates of the
\* dot in the centre are the other eight
C20_Witness ==
    /\ Len(sim.dots) = 9
    /\ \A i, j \in DOMAIN sim.dots :
          i # j => CellOf(sim, DotAt(sim, i)) # CellOf(sim, DotAt(sim, j))
    /\ \E id \in Range(sim.dots) :
          /\ \A o \in Range(sim.dots) :
                Neighbouring(CellOf(sim, sim.heap[id]), CellOf(sim, sim.heap[o]))
          /\ Range(ForceCandidates(sim, RebuildGrid(sim), id)) = Range(sim.dots) \ {id}
          /\ Len(ForceCandidates(sim, RebuildGrid(sim), id)) = 8

\* C21: a dot that the wall resolution of a tick finds at or beyond a wall on
\* an axis ends its turn at or inside that bound, with a velocity component
\* on that axis that points away from the wall (or is zero) and has 0.6 times
\* the magnitude it had before the bounce; a dot found strictly between the
\* walls of an axis keeps its integrated position and its velocity there.
AxisBounce(c, p, v, lo, hi, dt, p2, v2) ==
    /\ Integrate(c, p, v, dt) <= lo =>
          /\ p2 >= lo /\ v2 >= 0
          /\ Abs(v2) = Div(Abs(v) * BounceDamping, U)
    /\ Integrate(c, p, v, dt) >= hi =>
          /\ p2 <= hi /\ v2 <= 0
          /\ Abs(v2) = Div(Abs(v) * BounceDamping, U)
    /\ lo < Integrate(c, p, v, dt) /\ Integrate(c, p, v, dt) < hi =>
          /\ p2 = Integrate(c, p, v, dt) /\ v2 = v
BouncesBack(s, grid, heap, id, dt) ==
    /\ AxisBounce(s.controls, heap[id].x, Accelerate(s, grid, heap, id, dt)[1],
                  MinX + heap[id].size, MaxX(s) - heap[id].size, dt,
                  MoveDot(s, grid, heap, id, dt).x, MoveDot(s, grid, heap, id, dt).vx)
    /\ AxisBounce(s.controls, heap[id].y, Accelerate(s, grid, heap, id, dt)[2],
                  MinY + heap[id].size, MaxY(s) - heap[id].size, dt,
                  MoveDot(s, grid, heap, id, dt).y, MoveDot(s, grid, heap, id, dt).vy)
C21_BounceTurnsBack ==
    ~GridThrows(sim) =>
       \A g \in PhysicsGaps, k \in DOMAIN sim.dots :
          BouncesBack(sim, RebuildGrid(sim),
                      MoveAll(sim, RebuildGrid(sim), sim.heap, 1, k - 1,
                              LoopDt(env.clock + g, sim.lastTime)),
                      sim.dots[k], LoopDt(env.clock + g, sim.lastTime))

\* C22: in an animation callback that ticks with battles enabled, the
\* positions and velocities that the dots end the tick with are those of a
\* force pass over all dots under the factions of the start of the tick: no
\* battle of the tick comes before the last dot's force computation.
MovedUnderStartFactions(s, t, dt) ==
    \A id \in Range(s.dots) :
       [t.heap[id] EXCEPT !.faction = s.heap[id].faction] =
          MoveAll(s, RebuildGrid(s), s.heap, 1, Len(s.dots), dt)[id]
C22_ForcesBeforeBattles ==
    [][FrameStep /\ out'.frame.updated /\ sim.controls.battleRadius > 0 =>
          /\ sim'.dots = sim.dots
          /\ MovedUnderStartFactions(sim, sim', out'.frame.dt)]_vars
\* a callback has ticked and a battle of that tick has changed the faction
\* of a dot that is within the influence radius of a third dot
C22_Witness ==
    /\ out.frame.updated /\ \A t \in InitClocks : out.frame.ts > t
    /\ out.battles # <<>>
    /\ \E i, j \in DOMAIN sim.dots :
          /\ i # j
          /\ sim.dots[i] \in { out.battles[k][1] : k \in DOMAIN out.battles }
                               \cup { out.battles[k][2] : k \in DOMAIN out.battles }
          /\ NeighbourForce(sim.controls, DotAt(sim, j), DotAt(sim, i)) # <<0, 0>>

\* C23: the dt that loop hands to update, in start() and in every animation
\* callback, is the wall-clock time since the last tick divided by the step
\* of 16.67 ms when that time is below 32 ms, and 32 / 16.67 steps otherwise.
C23_DtClamped ==
    [][LoopRan /\ out'.frame.updated =>
          /\ out'.frame.dt * StepMsC <= MaxDeltaMs * U * U
          /\ out'.frame.dt =
                IF env'.clock - sim.lastTime >= MaxDeltaMs
                THEN (MaxDeltaMs * U * U) \div StepMsC
                ELSE ((env'.clock - sim.lastTime) * U * U) \div StepMsC]_vars
\* an animation callback later than the first has ticked with dt at the cap,
\* more than 250 ms after construction
C23_Witness ==
    /\ out.frame.updated /\ out.frame.ts = env.clock
    /\ \A t \in InitClocks : env.clock > t + StatsInterval
    /\ out.frame.dt = (MaxDeltaMs * U * U) \div StepMsC
    /\ sim.rafId > 2

\* C24: two successive invocations of the stats callback happen in runs of
\* loop whose timestamps are at least 250 ms apart, paused or not, and the
\* physics of a callback (whether it ticks, its dt, the dots it leaves) does
\* not depend on when the next emission is due.
PhysicsOf(w) == <<w.sim.dots, w.sim.heap, w.out.frame.updated, w.out.frame.dt>>
ImpulseSound(imp) ==
    imp.live =>
       /\ imp.decay = U - Div(imp.elapsed, ImpulseDuration)
       /\ 0 < imp.decay /\ imp.decay <= U
       /\ 0 <= imp.elapsed /\ imp.elapsed < ImpulseDuration * U
AgedBy(imp, after, ms) ==
    IF imp.elapsed + ms >= ImpulseDuration * U THEN ~after.live
    ELSE after = [imp EXCEPT !.elapsed = imp.elapsed + ms,
                             !.decay = U - Div(imp.elapsed + ms, ImpulseDuration)]
C25_ImpulseExpires ==
    /\ [](ImpulseSound(sim.clickImpulse))
    /\ [][/\ LoopRan /\ out'.frame.updated /\ sim.clickImpulse.live =>
              AgedBy(sim.clickImpulse, sim'.clickImpulse,
                     Mul(out'.frame.dt, StepMsC))
         /\ ~LoopRan /\ sim'.clickImpulse # sim.clickImpulse =>
              /\ sim'.clickImpulse.live
              /\ sim'.clickImpulse.elapsed = 0 /\ sim'.clickImpulse.decay = U]_vars
    /\ (sim.clickImpulse.live ~> ~sim.clickImpulse.live)
\* an impulse is within one tick of its duration, still alive, over dots
C25_Witness ==
    /\ sim.clickImpulse.live /\ sim.dots # <<>>
    /\ sim.clickImpulse.elapsed > (ImpulseDuration - MaxDeltaMs) * U
    /\ sim.clickImpulse.decay > 0

\* C26: the resolution of a pair of dots a, b of different factions within
\* the battle radius takes one draw r; a wins exactly when the roll
\* r * (size_a^2 + size_b^2) is below size_a^2 (for equal sizes: when r is
\* in the lower half of its range); the loser takes the winner's faction
\* and nothing else changes.
Resolved(s, a, b, r) ==
    BattleStep([heap |-> s.heap, n |-> 0, log |-> <<>>], <<a, b>>,
               (s.controls.battleRadius * U) * (s.controls.battleRadius * U),
               <<r>>)
RollBelow(da, db, r) ==
    r * (da.size * da.size + db.size * db.size) < da.size * da.size * RandDen
Opposed(s, a, b) ==
    /\ a # b /\ s.heap[a].faction # s.heap[b].faction
    /\ WithinSq(s.heap[a], s.heap[b], s.controls.battleRadius * U)
C26_WeightedBySizeSquared ==
    \A a, b \in Range(sim.dots), r \in 0..(RandDen - 1) :
       Opposed(sim, a, b) =>
          /\ Resolved(sim, a, b, r).heap =
                IF RollBelow(sim.heap[a], sim.heap[b], r)
                THEN [sim.heap EXCEPT ![b].faction = sim.heap[a].faction]
                ELSE [sim.heap EXCEPT ![a].faction = sim.heap[b].faction]
          /\ Resolved(sim, a, b, r).n = 1
          /\ sim.heap[a].size = sim.heap[b].size =>
                (RollBelow(sim.heap[a], sim.heap[b], r) <=> 2 * r < RandDen)
\* a tick has drawn a battle, and two dots of different factions and
\* different sizes stand within the battle radius of each other
C26_Witness ==
    /\ out.battles # <<>>
    /\ \E a, b \in Range(sim.dots) :
          Opposed(sim, a, b) /\ sim.heap[a].size # sim.heap[b].size

\* C27: an animation callback that ticks leaves the dot list as it was and
\* gives no dot a faction that no dot had before the tick; when all dots
\* share one faction it changes no faction.
FactionsOf(s) == { s.heap[id].faction : id \in Range(s.dots) }
C27_TicksOnlyShrinkFactions ==
    [][FrameStep /\ out'.frame.updated =>
          /\ sim'.dots = sim.dots
          /\ FactionsOf(sim') \subseteq FactionsOf(sim)
          /\ Cardinality(FactionsOf(sim)) <= 1 =>
                \A id \in Range(sim.dots) :
                   sim'.heap[id].faction = sim.heap[id].faction]_vars
\* the battles of an animation callback have left all dots of a population
\* spawned with three factions in one faction
C27_Witness ==
    /\ out.frame.updated /\ \A t \in InitClocks : out.frame.ts > t
    /\ out.battles # <<>>
    /\ Len(sim.dots) > 1 /\ Cardinality(FactionsOf(sim)) = 1

\* C28: a selected dot (menuDot non-null) is an element of the current dot
\* list, after any sequence of selections, palette changes, restarts and
\* ticks.
C28_MenuDotInList == sim.menuDot # NULL => sim.menuDot \in Range(sim.dots)

\* C29: at most one animation callback is scheduled at a time, and every
\* animation callback that runs schedules exactly one successor.
C29_OneLoop ==
    [][/\ Cardinality(env'.pending) <= 1
       /\ env'.clock > env.clock =>
             /\ Cardinality(env'.pending \ env.pending) = 1
             /\ env'.pending = {sim'.rafId}]_vars

\* C30: while the simulation is paused the pending-render flag set by a
\* visible change is cleared only by an animation callback that rendered,
\* so that the change is drawn by a later callback.
C30_ClearedOnlyByRender ==
    [][sim.paused /\ sim.needsRender /\ ~sim'.needsRender =>
          out'.frame.rendered]_vars

====
